---- MODULE Spec2Model ----
(***************************************************************************)
(* Channel registry and message ledger of the chat server                  *)
(* (controllers/ChannelControllers.js, controllers/MessagesController.js). *)
(*                                                                         *)
(* Every express handler is an async function: it runs atomically between  *)
(* two awaits, and other requests may run while it awaits the store.  A    *)
(* handler is therefore one action per await on mutable state: the step    *)
(* that reads the document (with the synchronous checks that follow it)    *)
(* and the step that commits document.save().  Mongoose's save() writes    *)
(* only the paths the handler modified.                                    *)
(***************************************************************************)
EXTENDS Integers, Sequences, FiniteSets, TLC

\* ------------------------------------------------------------- bounds
MaxMembers == 2   \* longest members array explored
MaxClock   == 2   \* last timestamp handed out
MaxRetries == 6   \* connectDB(retries): largest argument explored

\* ------------------------------------------------------------- universe
Users      == {"A", "B", "C"}      \* users the directory resolves
Ghost      == "Z"                  \* an identity the directory does not resolve
NoUser     == "-"                  \* undefined / null
Actors     == Users \cup {Ghost}
Names      == {"Team", "Dev"}
ChannelIds == {"ch1"}
NoChannel  == "-"                  \* a request without channelId
NoMsg      == "-"
Reqs       == {1, 2}               \* requests that can be in flight together
NaturalOrder == <<"m1", "m2">>     \* the Message collection in its natural order
MsgIds     == {"m1", "m2"}         \* identifiers of the messages stored in a run
Suffixes   == {"s1", "s2"}         \* unique suffixes multer gives to staged files
NoPath     == <<>>                 \* no file / no photo (falsy)
Contents   == {"hi", "hi there"}

Range(s) == {s[i] : i \in 1..Len(s)}

\* Array.prototype.filter
RECURSIVE Filter(_, _)
Filter(s, keep) ==
  IF s = <<>> THEN <<>>
  ELSE IF Head(s) \in keep THEN <<Head(s)>> \o Filter(Tail(s), keep)
       ELSE Filter(Tail(s), keep)

\* member lists a create-channel request may carry
MemberLists ==
  {l \in {<<>>, <<"B">>, <<"A", "B">>, <<"B", "B">>, <<"B", "Z">>, <<"B", "C">>, <<"B", "A", "B">>} :
     Len(l) <= MaxMembers}

VARIABLES
  channels,  \* Channel collection: ChannelIds -> document
  messages,  \* Message collection: MsgIds -> document
  files,     \* files present in the upload directories
  staged,    \* suffixes multer has used so far (a file name is never reused)
  clock,     \* Date.now()
  req,       \* Reqs -> the request handled in that slot
  server,    \* "starting" | "listening" | "closing" (gracefulShutdown has begun)
  boot       \* startServer: where it is, and what connectDB has done so far

vars == <<channels, messages, files, staged, clock, req, server, boot>>

\* ------------------------------------------------------------- documents
AbsentChannel ==
  [exists |-> FALSE, name |-> "", admin |-> NoUser, members |-> <<>>,
   photo |-> NoPath, messages |-> <<>>]

AbsentMsg ==
  [exists |-> FALSE, id |-> NoMsg, sender |-> NoUser, recipient |-> NoUser, channel |-> NoChannel,
   content |-> "", timestamp |-> 0, edited |-> FALSE, deleted |-> FALSE,
   pinned |-> FALSE]

\* A slot: the request (op and its inputs), where its handler stands (pc), what
\* it keeps of the document it loaded for use after the await (doc, mdoc),
\* whether another save has moved the array version since it loaded (stale),
\* and its response (status, msg, body).
Idle ==
  [op |-> "none", pc |-> "idle", actor |-> NoUser, elevated |-> FALSE,
   chan |-> NoChannel, user |-> NoUser, name |-> "", list |-> <<>>,
   mid |-> NoMsg, content |-> "", file |-> NoPath,
   doc |-> AbsentChannel, mdoc |-> AbsentMsg, stale |-> FALSE,
   status |-> 0, msg |-> "", body |-> <<>>]

\* ------------------------------------------------------------- helpers
\* User.findById / User.findOne({email}): a user's email stands for the user
FindUser(id) == IF id \in Users THEN id ELSE NoUser

\* User.find({_id: {$in: ids}}): the distinct resolvable users among ids
FindUsers(ids) == {u \in Users : u \in Range(ids)}

\* Channel.findById
FindChannel(c) == IF c \in ChannelIds THEN channels[c] ELSE AbsentChannel

\* a response is on its way out: nothing else is scheduled until it is sent
Responding == \E q \in Reqs : req[q].pc = "done"

\* the first slot not in use takes the next request
FreeSlot(r) ==
  /\ server = "listening"
  /\ ~Responding
  /\ req[r].pc = "idle"
  /\ \A q \in Reqs : q < r => req[q].pc # "idle"

\* the handler in slot r resumes at pc
Resumes(r, op, pc) == ~Responding /\ req[r].op = op /\ req[r].pc = pc

\* handlers that loaded channel c and have not saved yet
Pending(c) == {q \in Reqs : req[q].pc = "save" /\ req[q].chan = c}

\* res.status(status).json({message: msg}): the slot keeps the response and
\* what names the request (its route, channel, message and staged file)
Respond(rec, status, msg) ==
  [Idle EXCEPT !.op = rec.op, !.pc = "done", !.chan = rec.chan, !.mid = rec.mid,
               !.file = rec.file, !.status = status, !.msg = msg]

\* the path of a loaded channel that its handler reads again after the await
Loaded(doc, path) ==
  IF path = "name" THEN [AbsentChannel EXCEPT !.exists = TRUE, !.name = doc.name]
  ELSE [AbsentChannel EXCEPT !.exists = TRUE, !.members = doc.members]

\* (a store that keeps no document version: nothing is ever stale)
OutdateNever(r, c, rq) == rq

\* a save that changes the members array moves the document version (__v):
\* every handler still holding the earlier version is stale
Outdate(r, c, rq) ==
  [q \in Reqs |->
     IF q # r /\ rq[q].pc = "save" /\ rq[q].chan = c
     THEN [rq[q] EXCEPT !.stale = TRUE] ELSE rq[q]]

\* ------------------------------------------------------------- startServer
Retries     == 5        \* connectDB = async (retries = 5)
BackoffBase == 1000     \* 1000 * Math.pow(2, i)
BackoffCap  == 10000    \* Math.min(..., 10000)

RECURSIVE Pow2(_)
Pow2(n) == IF n = 0 THEN 1 ELSE 2 * Pow2(n - 1)

Min(a, b) == IF a <= b THEN a ELSE b

\* (the delay without its cap)
BackoffUncapped(i) == BackoffBase * Pow2(i)

\* const delay = Math.min(1000 * Math.pow(2, i), 10000)
Backoff(i) == Min(BackoffBase * Pow2(i), BackoffCap)

\* what mongoose.connect rejects with
ConnectErrors == {"ECONNREFUSED", "ETIMEOUT"}

\* startServer as it stands once the server listens: connectDB() was called with
\* its default and its first attempt connected
Booted ==
  [pc |-> "listening", retries |-> Retries, i |-> 0, attempts |-> 1,
   errors |-> <<>>, waited |-> <<>>, raised |-> "", exit |-> ""]

Init ==
  /\ boot = Booted
  /\ channels = [c \in ChannelIds |-> AbsentChannel]
  /\ messages = [m \in MsgIds |-> AbsentMsg]
  /\ files = {}
  /\ staged = {}
  /\ clock = 0
  /\ req = [r \in Reqs |-> Idle]
  /\ server = "listening"

\* the response has been sent: the slot is free again
Retire(r) ==
  /\ req[r].pc = "done"
  /\ req' = [req EXCEPT ![r] = Idle]
  /\ UNCHANGED <<channels, messages, files, staged, clock, server, boot>>

\* ------------------------------------------------------------- createChannel
\* (the validation without the member lookup)
CreateOutcomeNoMembers(actor, list) ==
  IF FindUser(actor) = NoUser THEN <<400, "Admin user not found.">>
  ELSE <<201, "">>

CreateOutcome(actor, list) ==
  IF FindUser(actor) = NoUser THEN <<400, "Admin user not found.">>
  ELSE IF Cardinality(FindUsers(list)) # Len(list)
       THEN <<400, "Some members are not valid users.">>
       ELSE <<201, "">>

NewChannel(actor, name, list) ==
  [exists |-> TRUE, name |-> name, admin |-> actor, members |-> list,
   photo |-> NoPath, messages |-> <<>>]

CreateChannel(r, actor, name, list, fault) ==
  /\ FreeSlot(r)
  /\ LET rq  == [Idle EXCEPT !.op = "createChannel", !.actor = actor,
                             !.name = name, !.list = list]
         out == CreateOutcome(actor, list)
         free == {c \in ChannelIds : ~channels[c].exists}
     IN IF fault
        THEN /\ req' = [req EXCEPT ![r] = Respond(rq, 500, "Internal Server Error")]
             /\ UNCHANGED channels
        ELSE IF out[1] # 201
        THEN /\ req' = [req EXCEPT ![r] = Respond(rq, out[1], out[2])]
             /\ UNCHANGED channels
        ELSE /\ free # {}
             /\ LET c == CHOOSE x \in free : TRUE
                IN /\ channels' = [channels EXCEPT ![c] = NewChannel(actor, name, list)]
                   /\ req' = [req EXCEPT ![r] =
                                Respond([rq EXCEPT !.chan = c], 201, "")]
  /\ UNCHANGED <<messages, files, staged, clock, server, boot>>

\* ------------------------------------------------------------- updateMemberRole
\* (variants of the checks, as a slip in the handler would leave them)
RoleChecksNoMember(doc, actor, user) ==
  IF ~doc.exists THEN <<404, "Channel not found">>
  ELSE IF doc.admin # actor THEN <<403, "Only the admin can update roles">>
  ELSE <<0, "">>

RoleChecksNoAdmin(doc, actor, user) ==
  IF ~doc.exists THEN <<404, "Channel not found">>
  ELSE IF user \notin Range(doc.members) THEN <<404, "User is not a member">>
  ELSE <<0, "">>

\* the checks between findById and save: <<status, message>>, 0 when they pass
RoleChecks(doc, actor, user) ==
  IF ~doc.exists THEN <<404, "Channel not found">>
  ELSE IF doc.admin # actor THEN <<403, "Only the admin can update roles">>
  ELSE IF user \notin Range(doc.members) THEN <<404, "User is not a member">>
  ELSE <<0, "">>

\* what save() writes after channel.admin = userId: the admin path, when the
\* assignment changed the loaded value (the loaded admin is the actor)
RoleWrite(stored, actor, user) ==
  IF user # actor THEN [stored EXCEPT !.admin = user] ELSE stored

UpdateMemberRoleFind(r, actor, chan, user, fault) ==
  /\ FreeSlot(r)
  /\ LET rq  == [Idle EXCEPT !.op = "updateMemberRole", !.actor = actor,
                             !.chan = chan, !.user = user]
         doc == FindChannel(chan)
         out == RoleChecks(doc, actor, user)
     IN req' = [req EXCEPT ![r] =
          IF fault THEN Respond(rq, 500, "Internal Server Error")
          ELSE IF out[1] # 0 THEN Respond(rq, out[1], out[2])
          ELSE [rq EXCEPT !.pc = "save"]]
  /\ UNCHANGED <<channels, messages, files, staged, clock, server, boot>>

UpdateMemberRoleSave(r, fault) ==
  /\ Resumes(r, "updateMemberRole", "save")
  /\ IF fault
     THEN /\ req' = [req EXCEPT ![r] = Respond(@, 500, "Internal Server Error")]
          /\ UNCHANGED channels
     ELSE /\ channels' = [channels EXCEPT
                            ![req[r].chan] = RoleWrite(@, req[r].actor, req[r].user)]
          /\ req' = [req EXCEPT ![r] =
                       Respond(@, 200, "Member role updated successfully")]
  /\ UNCHANGED <<messages, files, staged, clock, server, boot>>

\* ------------------------------------------------------------- changeGroupName
NameChecksNoAdmin(doc, actor) ==
  IF ~doc.exists THEN <<404, "Channel not found">> ELSE <<0, "">>

NameChecks(doc, actor) ==
  IF ~doc.exists THEN <<404, "Channel not found">>
  ELSE IF doc.admin # actor
       THEN <<403, "Only the admin can change the group name">>
       ELSE <<0, "">>

\* what save() writes after channel.name = name: the name path, when the
\* assignment changed the loaded value
NameWrite(stored, loaded, name) ==
  IF name # loaded.name THEN [stored EXCEPT !.name = name] ELSE stored

ChangeGroupNameFind(r, actor, chan, name, fault) ==
  /\ FreeSlot(r)
  /\ LET rq  == [Idle EXCEPT !.op = "changeGroupName", !.actor = actor,
                             !.chan = chan, !.name = name]
         doc == FindChannel(chan)
         out == NameChecks(doc, actor)
     IN req' = [req EXCEPT ![r] =
          IF fault THEN Respond(rq, 500, "Internal Server Error")
          ELSE IF out[1] # 0 THEN Respond(rq, out[1], out[2])
          ELSE [rq EXCEPT !.pc = "save", !.doc = Loaded(doc, "name")]]
  /\ UNCHANGED <<channels, messages, files, staged, clock, server, boot>>

ChangeGroupNameSave(r, fault) ==
  /\ Resumes(r, "changeGroupName", "save")
  /\ IF fault
     THEN /\ req' = [req EXCEPT ![r] = Respond(@, 500, "Internal Server Error")]
          /\ UNCHANGED channels
     ELSE /\ channels' = [channels EXCEPT
                            ![req[r].chan] = NameWrite(@, req[r].doc, req[r].name)]
          /\ req' = [req EXCEPT ![r] =
                       Respond(@, 200, "Group name updated successfully")]
  /\ UNCHANGED <<messages, files, staged, clock, server, boot>>

\* ------------------------------------------------------------- addMember
\* (the checks without the user lookup)
AddChecksNoLookup(doc, email) ==
  IF ~doc.exists THEN <<404, "Channel not found">>
  ELSE IF email \in Range(doc.members)
       THEN <<400, "User is already a member">>
       ELSE <<0, "">>

AddChecks(doc, email) ==
  IF ~doc.exists THEN <<404, "Channel not found">>
  ELSE IF FindUser(email) = NoUser THEN <<404, "User not found">>
  ELSE IF FindUser(email) \in Range(doc.members)
       THEN <<400, "User is already a member">>
       ELSE <<0, "">>

\* members arrays never grow past MaxMembers in the runs explored
RoomFor(chan) ==
  chan \in ChannelIds =>
    Len(channels[chan].members)
      + Cardinality({q \in Pending(chan) : req[q].op = "addMember"}) < MaxMembers

AddMemberFind(r, actor, chan, email, fault) ==
  /\ FreeSlot(r)
  /\ RoomFor(chan)
  /\ LET rq  == [Idle EXCEPT !.op = "addMember", !.chan = chan, !.user = email]
         doc == FindChannel(chan)
         out == AddChecks(doc, email)
     IN req' = [req EXCEPT ![r] =
          IF fault THEN Respond(rq, 500, "Internal Server Error")
          ELSE IF out[1] # 0 THEN Respond(rq, out[1], out[2])
          ELSE [rq EXCEPT !.pc = "save"]]
  /\ UNCHANGED <<channels, messages, files, staged, clock, server, boot>>

\* channel.members.push(id) is saved as an atomic $push on the stored array; it
\* moves the document version without being conditioned on it
AddMemberSave(r, fault) ==
  /\ Resumes(r, "addMember", "save")
  /\ IF fault
     THEN /\ req' = [req EXCEPT ![r] = Respond(@, 500, "Internal Server Error")]
          /\ UNCHANGED channels
     ELSE /\ channels' = [channels EXCEPT ![req[r].chan].members =
                            Append(@, FindUser(req[r].user))]
          /\ req' = [Outdate(r, req[r].chan, req) EXCEPT ![r] =
                       Respond(@, 200, "Member added successfully")]
  /\ UNCHANGED <<messages, files, staged, clock, server, boot>>

\* ------------------------------------------------------------- removeMember
RemoveChecks(doc, email) ==
  IF ~doc.exists THEN <<404, "Channel not found">>
  ELSE IF FindUser(email) = NoUser THEN <<404, "User not found">>
  ELSE IF FindUser(email) \notin Range(doc.members)
       THEN <<400, "User is not a member">>
       ELSE <<0, "">>

RemoveMemberFind(r, actor, chan, email, fault) ==
  /\ FreeSlot(r)
  /\ LET rq  == [Idle EXCEPT !.op = "removeMember", !.chan = chan, !.user = email]
         doc == FindChannel(chan)
         out == RemoveChecks(doc, email)
     IN req' = [req EXCEPT ![r] =
          IF fault THEN Respond(rq, 500, "Internal Server Error")
          ELSE IF out[1] # 0 THEN Respond(rq, out[1], out[2])
          ELSE [rq EXCEPT !.pc = "save", !.doc = Loaded(doc, "members")]]
  /\ UNCHANGED <<channels, messages, files, staged, clock, server, boot>>

\* channel.members = channel.members.filter(...) replaces the whole array from the
\* loaded copy; mongoose conditions such a save on the loaded document version
\* and the save throws (VersionError) when the version has moved
RemoveMemberSave(r, fault) ==
  /\ Resumes(r, "removeMember", "save")
  /\ IF fault \/ req[r].stale
     THEN /\ req' = [req EXCEPT ![r] = Respond(@, 500, "Internal Server Error")]
          /\ UNCHANGED channels
     ELSE /\ channels' = [channels EXCEPT ![req[r].chan].members =
                            Filter(req[r].doc.members,
                                   Users \ {FindUser(req[r].user)})]
          /\ req' = [Outdate(r, req[r].chan, req) EXCEPT ![r] =
                       Respond(@, 200, "Member removed successfully")]
  /\ UNCHANGED <<messages, files, staged, clock, server, boot>>

\* ------------------------------------------------------------- setGroupPhoto
AppRoot   == <<"src">>                          \* path.join(__dirname, '..')
UploadDir == <<"src", "uploads", "channels">>   \* uploadDir

\* multer's diskStorage: destination uploadDir, filename channel-<unique suffix>
StagedPath(suffix) == UploadDir \o <<suffix>>

IsPrefix(a, b) == Len(a) <= Len(b) /\ SubSeq(b, 1, Len(a)) = a

\* path.relative(base, p), for p below base
PathRelative(base, p) ==
  IF IsPrefix(base, p) THEN SubSeq(p, Len(base) + 1, Len(p)) ELSE <<"..">> \o p

\* path.join(base, rel)
PathJoin(base, rel) == base \o rel

\* (fs.unlink of the promises API: removes the file, rejects when it is missing)
UnlinkRemoves(fs, path) == [threw |-> path \notin fs, files |-> fs \ {path}]

\* fs.unlink as ChannelControllers.js imports it (the callback API of "fs"),
\* called with a path only: node validates the callback argument before any
\* I/O and throws, so nothing is removed
Unlink(fs, path) == [threw |-> TRUE, files |-> fs]

\* the catch block of setGroupPhoto: try { unlink(req.file.path) } catch { log }
Cleanup(fs, path) == Unlink(fs, path).files

PhotoChecks(doc, actor) ==
  IF ~doc.exists THEN <<404, "Channel not found">>
  ELSE IF doc.admin # actor THEN <<403, "Only admin can change group photo">>
  ELSE <<0, "">>

\* upload.single('photo') and the synchronous code up to Channel.findById
\* (suffix: what Date.now() and Math.random() give, never used before)
SetGroupPhotoUpload(r, actor, chan, upload, suffix) ==
  /\ FreeSlot(r)
  /\ LET rq == [Idle EXCEPT !.op = "setGroupPhoto", !.actor = actor, !.chan = chan]
     IN \/ /\ upload = "err"
           /\ req' = [req EXCEPT ![r] = Respond(rq, 400, "File upload failed")]
           /\ UNCHANGED <<files, staged, server, boot>>
        \/ /\ upload = "none"
           /\ req' = [req EXCEPT ![r] = Respond(rq, 400, "No file uploaded")]
           /\ UNCHANGED <<files, staged, server, boot>>
        \/ /\ upload = "file"
           /\ suffix \notin staged
           /\ staged' = staged \cup {suffix}
           /\ LET path == StagedPath(suffix)
                  rqf  == [rq EXCEPT !.file = path]
                  u    == Unlink(files \cup {path}, path)
              IN IF chan # NoChannel
                 THEN /\ files' = files \cup {path}
                      /\ req' = [req EXCEPT ![r] = [rqf EXCEPT !.pc = "find"]]
                      /\ UNCHANGED server
                 ELSE IF u.threw
                 THEN \* thrown outside the inner try: the callback's promise is
                      \* rejected and nobody handles it; no response is sent and
                      \* the unhandledRejection hook starts the shutdown
                      /\ files' = u.files
                      /\ req' = [req EXCEPT ![r] = Respond(rqf, 0, "unhandledRejection")]
                      /\ server' = "closing"
                 ELSE /\ files' = u.files
                      /\ req' = [req EXCEPT ![r] =
                                   Respond(rqf, 400, "Channel ID is required")]
                      /\ UNCHANGED server
  /\ UNCHANGED <<channels, messages, clock, boot>>

\* Channel.findById, the checks, and the removal of the previous photo
SetGroupPhotoFind(r, fault) ==
  /\ Resumes(r, "setGroupPhoto", "find")
  /\ LET doc == FindChannel(req[r].chan)
         out == PhotoChecks(doc, req[r].actor)
         u   == Unlink(files, req[r].file)
         old == Unlink(files, PathJoin(AppRoot, doc.photo))
     IN IF fault
        THEN /\ files' = Cleanup(files, req[r].file)
             /\ req' = [req EXCEPT ![r] = Respond(@, 500, "Internal server error")]
        ELSE IF out[1] # 0
        THEN IF u.threw
             THEN /\ files' = Cleanup(u.files, req[r].file)
                  /\ req' = [req EXCEPT ![r] = Respond(@, 500, "Internal server error")]
             ELSE /\ files' = u.files
                  /\ req' = [req EXCEPT ![r] = Respond(@, out[1], out[2])]
        ELSE /\ files' = IF doc.photo # NoPath THEN old.files ELSE files
             /\ req' = [req EXCEPT ![r] =
                          [@ EXCEPT !.pc = "save"]]
  /\ UNCHANGED <<channels, messages, staged, clock, server, boot>>

\* channel.photo = relativePath; await channel.save()
SetGroupPhotoSave(r, fault) ==
  /\ Resumes(r, "setGroupPhoto", "save")
  /\ IF fault
     THEN /\ files' = Cleanup(files, req[r].file)
          /\ req' = [req EXCEPT ![r] = Respond(@, 500, "Internal server error")]
          /\ UNCHANGED channels
     ELSE /\ channels' = [channels EXCEPT ![req[r].chan].photo =
                            PathRelative(AppRoot, req[r].file)]
          /\ req' = [req EXCEPT ![r] =
                       Respond(@, 200, "Group photo updated successfully")]
          /\ UNCHANGED files
  /\ UNCHANGED <<messages, staged, clock, server, boot>>

\* ------------------------------------------------------------- messages
\* Message.findById
FindMessage(m) == IF m \in MsgIds THEN messages[m] ELSE AbsentMsg

\* the paths of a loaded message that its handler assigns before save()
LoadedMsg(doc) ==
  [AbsentMsg EXCEPT !.exists = TRUE, !.id = doc.id, !.content = doc.content,
                    !.edited = doc.edited, !.deleted = doc.deleted,
                    !.pinned = doc.pinned]

\* A message is stored (by the socket layer): to a user, or to a channel whose
\* messages array gets its reference.  Its flags start false and its timestamp
\* is the time of creation.
SendMessage(m, sender, to, content, t) ==
  /\ server = "listening" /\ ~Responding
  /\ ~messages[m].exists
  /\ t >= clock /\ t <= MaxClock
  /\ to \in ChannelIds => channels[to].exists
  /\ clock' = t
  /\ messages' = [messages EXCEPT ![m] =
       [AbsentMsg EXCEPT !.exists = TRUE, !.id = m, !.sender = sender,
                         !.recipient = IF to \in Users THEN to ELSE NoUser,
                         !.channel = IF to \in ChannelIds THEN to ELSE NoChannel,
                         !.content = content, !.timestamp = t]]
  /\ channels' = IF to \in ChannelIds
                 THEN [channels EXCEPT ![to].messages = Append(@, m)]
                 ELSE channels
  /\ UNCHANGED <<files, staged, req, server, boot>>

\* ------------------------------------------------------------- getMessages
\* (the filter without its deleted clause)
InConversationAll(doc, user1, user2) ==
  /\ doc.exists
  /\ \/ doc.sender = user1 /\ doc.recipient = user2
     \/ doc.sender = user2 /\ doc.recipient = user1

\* the filter of Message.find: the two directions of the pair, not deleted
InConversation(doc, user1, user2) ==
  /\ doc.exists
  /\ \/ doc.sender = user1 /\ doc.recipient = user2
     \/ doc.sender = user2 /\ doc.recipient = user1
  /\ doc.deleted = FALSE

\* .sort({timestamp: 1}): a stable insertion sort
RECURSIVE InsertByTimestamp(_, _)
InsertByTimestamp(d, s) ==
  IF s = <<>> THEN <<d>>
  ELSE IF d.timestamp < Head(s).timestamp THEN <<d>> \o s
       ELSE <<Head(s)>> \o InsertByTimestamp(d, Tail(s))

RECURSIVE SortByTimestamp(_)
SortByTimestamp(s) ==
  IF s = <<>> THEN <<>>
  ELSE InsertByTimestamp(s[Len(s)], SortByTimestamp(SubSeq(s, 1, Len(s) - 1)))

\* the documents of the ids in ids, in that order
RECURSIVE Docs(_)
Docs(ids) ==
  IF ids = <<>> THEN <<>> ELSE <<messages[Head(ids)]>> \o Docs(Tail(ids))

Conversation(user1, user2) ==
  SortByTimestamp(
    Docs(Filter(NaturalOrder,
                {m \in MsgIds : InConversation(messages[m], user1, user2)})))

GetMessages(r, user1, user2, fault) ==
  /\ FreeSlot(r)
  /\ LET rq == [Idle EXCEPT !.op = "getMessages"]
     IN req' = [req EXCEPT ![r] =
          IF user1 = NoUser \/ user2 = NoUser
          THEN Respond(rq, 400, "Both user IDs are required.")
          ELSE IF fault THEN Respond(rq, 500, "Internal Server Error")
          ELSE [Respond(rq, 200, "") EXCEPT !.body = Conversation(user1, user2)]]
  /\ UNCHANGED <<channels, messages, files, staged, clock, server, boot>>

\* ------------------------------------------------------------- getChannelMessages
\* populate("messages"): the stored documents the channel's references name
Populate(doc) == Docs(Filter(doc.messages, {m \in MsgIds : messages[m].exists}))

GetChannelMessages(r, chan, fault) ==
  /\ FreeSlot(r)
  /\ LET rq  == [Idle EXCEPT !.op = "getChannelMessages", !.chan = chan]
         doc == FindChannel(chan)
     IN req' = [req EXCEPT ![r] =
          IF fault THEN Respond(rq, 500, "Internal Server Error")
          ELSE IF ~doc.exists THEN Respond(rq, 404, "Channel not found")
          ELSE [Respond(rq, 200, "") EXCEPT !.body = Populate(doc)]]
  /\ UNCHANGED <<channels, messages, files, staged, clock, server, boot>>

\* ------------------------------------------------------------- uploadFile
FilesDir == <<"uploads", "files">>     \* multer({ dest: "uploads/files/" })
Stamps == {"t1", "t2"}                 \* values of Date.now()
OriginalNames == {<<"a.png">>, <<"docs", "a.png">>, <<"b.pdf">>}

\* path.basename
Basename(p) == <<p[Len(p)]>>

\* `uploads/files/${date}`
FileDir(date) == FilesDir \o <<date>>

\* `${fileDir}/${path.basename(request.file.originalname)}`
FileName(date, original) == FileDir(date) \o Basename(original)

\* fs.rename of the promises API: the file leaves `from` and is at `to`
Rename(fs, from, to) == (fs \ {from}) \cup {to}

\* upload.single("file") stages the upload under a name of its own (suffix),
\* then uploadFile: mkdir, rename, answer.  fault: which of the two throws.
UploadFile(r, upload, suffix, date, original, fault) ==
  /\ FreeSlot(r)
  /\ LET rq == [Idle EXCEPT !.op = "uploadFile"]
     IN IF upload = "none"
        THEN /\ req' = [req EXCEPT ![r] = Respond(rq, 404, "File is required.")]
             /\ UNCHANGED <<files, staged>>
        ELSE /\ suffix \notin staged
             /\ staged' = staged \cup {suffix}
             /\ LET path == FilesDir \o <<suffix>>
                    rqf  == [rq EXCEPT !.file = path]
                    held == files \cup {path}
                IN IF fault \in {"mkdir", "rename"}
                   THEN /\ files' = held
                        /\ req' = [req EXCEPT ![r] =
                                     Respond(rqf, 500, "Internal Server Error.")]
                   ELSE /\ files' = Rename(held, path, FileName(date, original))
                        /\ req' = [req EXCEPT ![r] =
                                     [Respond(rqf, 200, "") EXCEPT
                                        !.body = FileName(date, original)]]
  /\ UNCHANGED <<channels, messages, clock, server, boot>>

\* ------------------------------------------------------------- deleteMessage
\* (the checks without the sender test)
DeleteChecksAnyone(mid, doc, actor) ==
  IF mid = NoMsg THEN <<400, "Message ID is required">>
  ELSE IF ~doc.exists THEN <<404, "Message not found">>
  ELSE <<0, "">>

DeleteChecks(mid, doc, actor) ==
  IF mid = NoMsg THEN <<400, "Message ID is required">>
  ELSE IF ~doc.exists THEN <<404, "Message not found">>
  ELSE IF doc.sender # actor
       THEN <<403, "Not authorized to delete this message">>
       ELSE <<0, "">>

\* what save() writes after message.deleted = true: the path, when the
\* assignment changed the loaded value
DeleteWrite(stored, loaded) ==
  IF ~loaded.deleted THEN [stored EXCEPT !.deleted = TRUE] ELSE stored

DeleteMessageFind(r, actor, mid, fault) ==
  /\ FreeSlot(r)
  /\ LET rq  == [Idle EXCEPT !.op = "deleteMessage", !.actor = actor, !.mid = mid]
         doc == FindMessage(mid)
         out == DeleteChecks(mid, doc, actor)
     IN req' = [req EXCEPT ![r] =
          IF out[1] = 400 THEN Respond(rq, out[1], out[2])
          ELSE IF fault THEN Respond(rq, 500, "Failed to delete message")
          ELSE IF out[1] # 0 THEN Respond(rq, out[1], out[2])
          ELSE [rq EXCEPT !.pc = "save", !.mdoc = LoadedMsg(doc)]]
  /\ UNCHANGED <<channels, messages, files, staged, clock, server, boot>>

DeleteMessageSave(r, fault) ==
  /\ Resumes(r, "deleteMessage", "save")
  /\ IF fault
     THEN /\ req' = [req EXCEPT ![r] = Respond(@, 500, "Failed to delete message")]
          /\ UNCHANGED messages
     ELSE /\ messages' = [messages EXCEPT
                            ![req[r].mid] = DeleteWrite(@, req[r].mdoc)]
          /\ req' = [req EXCEPT ![r] = Respond(@, 200, "Message deleted successfully")]
  /\ UNCHANGED <<channels, files, staged, clock, server, boot>>

\* ------------------------------------------------------------- editMessage
\* (the checks with the sender test alone)
EditChecksSenderOnly(doc, actor, elevated) ==
  IF ~doc.exists THEN <<404, "Message not found.">>
  ELSE IF doc.sender # actor
       THEN <<403, "You are not authorized to edit this message.">>
       ELSE <<0, "">>

EditChecks(doc, actor, elevated) ==
  IF ~doc.exists THEN <<404, "Message not found.">>
  ELSE IF doc.sender # actor /\ ~elevated
       THEN <<403, "You are not authorized to edit this message.">>
       ELSE <<0, "">>

\* what save() writes after message.content = newContent; message.edited = true:
\* each path whose assignment changed the loaded value
\* (a save that writes back every path of the loaded copy)
EditWriteWholeDoc(stored, loaded, content) ==
  [stored EXCEPT !.content = content, !.edited = TRUE,
                 !.deleted = loaded.deleted, !.pinned = loaded.pinned]

EditWrite(stored, loaded, content) ==
  [stored EXCEPT !.content = IF content # loaded.content THEN content ELSE @,
                 !.edited = IF ~loaded.edited THEN TRUE ELSE @]

EditMessageFind(r, actor, elevated, mid, content, fault) ==
  /\ FreeSlot(r)
  /\ LET rq  == [Idle EXCEPT !.op = "editMessage", !.actor = actor,
                             !.elevated = elevated, !.mid = mid,
                             !.content = content]
         doc == FindMessage(mid)
         out == EditChecks(doc, actor, elevated)
     IN req' = [req EXCEPT ![r] =
          IF fault THEN Respond(rq, 500, "Internal Server Error")
          ELSE IF out[1] # 0 THEN Respond(rq, out[1], out[2])
          ELSE [rq EXCEPT !.pc = "save", !.mdoc = LoadedMsg(doc)]]
  /\ UNCHANGED <<channels, messages, files, staged, clock, server, boot>>

EditMessageSave(r, fault) ==
  /\ Resumes(r, "editMessage", "save")
  /\ IF fault
     THEN /\ req' = [req EXCEPT ![r] = Respond(@, 500, "Internal Server Error")]
          /\ UNCHANGED messages
     ELSE /\ messages' = [messages EXCEPT
                            ![req[r].mid] = EditWrite(@, req[r].mdoc, req[r].content)]
          /\ req' = [req EXCEPT ![r] = Respond(@, 200, "Message edited successfully.")]
  /\ UNCHANGED <<channels, files, staged, clock, server, boot>>

\* ------------------------------------------------------------- pinMessage
\* (the checks without the already-pinned test)
PinChecksNoRepeat(doc, elevated) ==
  IF ~doc.exists THEN <<404, "Message not found.">>
  ELSE IF ~elevated THEN <<403, "You are not authorized to pin this message.">>
  ELSE <<0, "">>

PinChecks(doc, elevated) ==
  IF ~doc.exists THEN <<404, "Message not found.">>
  ELSE IF ~elevated THEN <<403, "You are not authorized to pin this message.">>
  ELSE IF doc.pinned THEN <<400, "Message is already pinned.">>
  ELSE <<0, "">>

\* what save() writes after message.pinned = true
PinWrite(stored) == [stored EXCEPT !.pinned = TRUE]

PinMessageFind(r, actor, elevated, mid, fault) ==
  /\ FreeSlot(r)
  /\ LET rq  == [Idle EXCEPT !.op = "pinMessage", !.actor = actor,
                             !.elevated = elevated, !.mid = mid]
         doc == FindMessage(mid)
         out == PinChecks(doc, elevated)
     IN req' = [req EXCEPT ![r] =
          IF fault THEN Respond(rq, 500, "Internal Server Error")
          ELSE IF out[1] # 0 THEN Respond(rq, out[1], out[2])
          ELSE [rq EXCEPT !.pc = "save", !.mdoc = LoadedMsg(doc)]]
  /\ UNCHANGED <<channels, messages, files, staged, clock, server, boot>>

PinMessageSave(r, fault) ==
  /\ Resumes(r, "pinMessage", "save")
  /\ IF fault
     THEN /\ req' = [req EXCEPT ![r] = Respond(@, 500, "Internal Server Error")]
          /\ UNCHANGED messages
     ELSE /\ messages' = [messages EXCEPT ![req[r].mid] = PinWrite(@)]
          /\ req' = [req EXCEPT ![r] = Respond(@, 200, "Message pinned successfully.")]
  /\ UNCHANGED <<channels, files, staged, clock, server, boot>>

\* ------------------------------------------------------------- specifications
ChanArgs == ChannelIds \cup {NoChannel}
Uploads  == {"err", "none", "file"}

\* The requests a specification draws from: who asks on the routes that check
\* req.userId (actors) and on those that never read it (anyone), the userId and
\* email in the body (targets, emails), the channel ids (chans), whether the
\* store fails on the first query (faults), and multer's suffixes.
Wide ==
  [actors |-> Actors, anyone |-> Actors, targets |-> Actors \cup {NoUser},
   emails |-> Actors, chans |-> ChanArgs, faults |-> BOOLEAN,
   suffixes |-> Suffixes]

Narrow ==
  [actors |-> Actors, anyone |-> {"A"}, targets |-> Actors \cup {NoUser},
   emails |-> {"B", Ghost}, chans |-> ChanArgs, faults |-> {FALSE},
   suffixes |-> {"s1"}]

\* a request arrives at a channel route
ChannelBegin(r, in) ==
  \/ \E a \in in.actors, n \in Names, l \in MemberLists, f \in in.faults :
       CreateChannel(r, a, n, l, f)
  \/ \E a \in in.actors, c \in in.chans, u \in in.targets, f \in in.faults :
       UpdateMemberRoleFind(r, a, c, u, f)
  \/ \E a \in in.actors, c \in in.chans, n \in Names, f \in in.faults :
       ChangeGroupNameFind(r, a, c, n, f)
  \/ \E a \in in.anyone, c \in in.chans, u \in in.emails, f \in in.faults :
       AddMemberFind(r, a, c, u, f)
  \/ \E a \in in.anyone, c \in in.chans, u \in in.emails, f \in in.faults :
       RemoveMemberFind(r, a, c, u, f)
  \/ \E a \in in.actors, c \in in.chans, up \in Uploads, x \in in.suffixes :
       SetGroupPhotoUpload(r, a, c, up, x)

\* a handler resumes after an await, or its slot is released
ChannelStep(r) ==
  \/ \E f \in BOOLEAN : UpdateMemberRoleSave(r, f)
  \/ \E f \in BOOLEAN : ChangeGroupNameSave(r, f)
  \/ \E f \in BOOLEAN : AddMemberSave(r, f)
  \/ \E f \in BOOLEAN : RemoveMemberSave(r, f)
  \/ \E f \in BOOLEAN : SetGroupPhotoFind(r, f)
  \/ \E f \in BOOLEAN : SetGroupPhotoSave(r, f)
  \/ Retire(r)

\* requests are handled concurrently
Next == \E r \in Reqs : ChannelBegin(r, Narrow) \/ ChannelStep(r)

Spec == Init /\ [][Next]_vars

\* requests arrive one after the other: a single slot, so that none arrives
\* while a handler is in flight
OneAtATime == {1}

NextSeq == \E r \in OneAtATime : ChannelBegin(r, Wide) \/ ChannelStep(r)

SpecSeq == Init /\ [][NextSeq]_vars

\* Membership: adds and removes of two users on one channel, handled
\* concurrently by whoever asks.
Crowd == [Narrow EXCEPT !.anyone = {"A", "C"}, !.emails = {"B", "C"}]

NextMembers ==
  \E r \in Reqs :
    \/ \E l \in MemberLists : CreateChannel(r, "A", "Team", l, FALSE)
    \/ \E a \in Crowd.anyone, c \in ChannelIds, u \in Crowd.emails :
         AddMemberFind(r, a, c, u, FALSE)
    \/ \E a \in Crowd.anyone, c \in ChannelIds, u \in Crowd.emails :
         RemoveMemberFind(r, a, c, u, FALSE)
    \/ \E f \in BOOLEAN : AddMemberSave(r, f)
    \/ \E f \in BOOLEAN : RemoveMemberSave(r, f)
    \/ Retire(r)

SpecMembers == Init /\ [][NextMembers]_vars

\* Photos: the admin of a stored channel sets its photo, with requests handled
\* concurrently and every upload staged under a name of its own.
NextPhoto ==
  \E r \in Reqs :
    \/ \E n \in Names, l \in MemberLists : CreateChannel(r, "A", n, l, FALSE)
    \/ \E c \in ChannelIds, x \in Suffixes :
         channels[c].exists /\ SetGroupPhotoUpload(r, "A", c, "file", x)
    \/ SetGroupPhotoFind(r, FALSE)
    \/ SetGroupPhotoSave(r, FALSE)
    \/ Retire(r)

SpecPhoto == Init /\ [][NextPhoto]_vars

\* The message ledger.  The messages a specification stores (mids, senders,
\* dests, texts, times) and the requests it draws from.
Ledger ==
  [mids |-> MsgIds, senders |-> {"A", "B"}, dests |-> {"A", "B"},
   texts |-> {"hi"}, times |-> {1},
   actors |-> {"A", "B"}, asked |-> MsgIds \cup {NoMsg}, faults |-> BOOLEAN]

Racing ==
  [mids |-> {"m1"}, senders |-> {"A"}, dests |-> {"B"},
   texts |-> {"hi"}, times |-> {1},
   actors |-> {"A", "B"}, asked |-> {"m1"}, faults |-> {FALSE}]

Stored(in) ==
  \E m \in in.mids, s \in in.senders, d \in in.dests, c \in in.texts,
     t \in in.times :
    SendMessage(m, s, d, c, t)

\* a request arrives at a route that changes a message
MessageBegin(r, in) ==
  \/ \E a \in in.actors, m \in in.asked, f \in in.faults :
       DeleteMessageFind(r, a, m, f)
  \/ \E a \in in.actors, e \in BOOLEAN, m \in in.asked, c \in Contents,
        f \in in.faults :
       EditMessageFind(r, a, e, m, c, f)
  \/ \E a \in in.actors, e \in BOOLEAN, m \in in.asked, f \in in.faults :
       PinMessageFind(r, a, e, m, f)

MessageStep(r) ==
  \/ \E f \in BOOLEAN : DeleteMessageSave(r, f)
  \/ \E f \in BOOLEAN : EditMessageSave(r, f)
  \/ \E f \in BOOLEAN : PinMessageSave(r, f)
  \/ Retire(r)

NextMsgSeq ==
  \/ Stored(Ledger)
  \/ \E r \in OneAtATime : MessageBegin(r, Ledger) \/ MessageStep(r)

SpecMsgSeq == Init /\ [][NextMsgSeq]_vars

NextMsg ==
  \/ Stored(Racing)
  \/ \E r \in Reqs : MessageBegin(r, Racing) \/ MessageStep(r)

SpecMsg == Init /\ [][NextMsg]_vars

\* Reading: direct and channel messages with their times, soft deletion, and the
\* two read routes; requests arrive one after the other.
Reading ==
  [mids |-> MsgIds, senders |-> {"A", "B"}, dests |-> {"A", "B"} \cup ChannelIds,
   texts |-> {"hi"}, times |-> 1..MaxClock,
   actors |-> {"A", "B"}, asked |-> MsgIds, faults |-> {FALSE}]

NextRead ==
  \/ Stored(Reading)
  \/ \E r \in OneAtATime :
       \/ CreateChannel(r, "A", "Team", <<"A", "B">>, FALSE)
       \/ \E a \in Reading.actors, m \in Reading.asked :
            DeleteMessageFind(r, a, m, FALSE)
       \/ \E f \in BOOLEAN : DeleteMessageSave(r, f)
       \/ \E a \in Actors \cup {NoUser}, b \in Actors \cup {NoUser}, f \in BOOLEAN :
            GetMessages(r, a, b, f)
       \/ \E c \in ChanArgs, f \in BOOLEAN : GetChannelMessages(r, c, f)
       \/ Retire(r)

SpecRead == Init /\ [][NextRead]_vars

\* Attachments: uploads arrive one after the other.
NextUpload ==
  \E r \in OneAtATime :
    \/ \E up \in {"none", "file"}, x \in Suffixes, d \in Stamps,
          o \in OriginalNames, f \in {"no", "mkdir", "rename"} :
         UploadFile(r, up, x, d, o, f)
    \/ Retire(r)

SpecUpload == Init /\ [][NextUpload]_vars

\* Startup.  The process starts, startServer runs to app.listen or to
\* process.exit, and a signal may end the listening server.
Running == <<channels, messages, files, staged, clock, req>>

InitBoot ==
  /\ \E n \in 1..MaxRetries :
       boot = [Booted EXCEPT !.pc = "validateEnv", !.retries = n, !.attempts = 0]
  /\ channels = [c \in ChannelIds |-> AbsentChannel]
  /\ messages = [m \in MsgIds |-> AbsentMsg]
  /\ files = {}
  /\ staged = {}
  /\ clock = 0
  /\ req = [r \in Reqs |-> Idle]
  /\ server = "starting"

\* process.exit(code)
Exit(b, code) == [b EXCEPT !.pc = "exited", !.exit = code]

\* validateEnv(): a required variable is missing, or none is
ValidateEnv(ok) ==
  /\ boot.pc = "validateEnv"
  /\ boot' = IF ok THEN [boot EXCEPT !.pc = "setupDirectories"] ELSE Exit(boot, "1")
  /\ UNCHANGED <<Running, server>>

\* await setupDirectories(): a mkdir fails, or none does
SetupDirectories(ok) ==
  /\ boot.pc = "setupDirectories"
  /\ boot' = IF ok THEN [boot EXCEPT !.pc = "connect"] ELSE Exit(boot, "1")
  /\ UNCHANGED <<Running, server>>

\* connectDB: the loop test and one pass of its body up to an await that takes
\* time, the return or the throw; a throw is caught by startServer, which exits.
\* outcome: "ok", or what mongoose.connect rejects with
Connect(outcome) ==
  /\ boot.pc = "connect"
  /\ boot' =
       IF ~(boot.i < boot.retries) THEN [boot EXCEPT !.pc = "listen"]
       ELSE LET tried == [boot EXCEPT !.attempts = @ + 1]
            IN IF outcome = "ok" THEN [tried EXCEPT !.pc = "listen"]
               ELSE LET failed == [tried EXCEPT !.errors = Append(@, outcome)]
                    IN IF boot.i = boot.retries - 1
                       THEN Exit([failed EXCEPT !.raised = outcome], "1")
                       ELSE [failed EXCEPT !.pc = "backoff"]
  /\ UNCHANGED <<Running, server>>

\* the timer of the backoff fires and the loop goes on with i + 1
BackoffElapsed ==
  /\ boot.pc = "backoff"
  /\ boot' = [boot EXCEPT !.waited = Append(@, Backoff(boot.i)),
                          !.i = @ + 1, !.pc = "connect"]
  /\ UNCHANGED <<Running, server>>

\* initializeApp(), app.listen(PORT), the signal handlers
Listen ==
  /\ boot.pc = "listen"
  /\ boot' = [boot EXCEPT !.pc = "listening"]
  /\ server' = "listening"
  /\ UNCHANGED Running

\* SIGTERM or SIGINT: gracefulShutdown(server) begins
Signal ==
  /\ boot.pc = "listening" /\ server = "listening"
  /\ server' = "closing"
  /\ UNCHANGED <<Running, boot>>

\* gracefulShutdown: server.close and the store's close succeed, or one throws
GracefulShutdown(ok) ==
  /\ boot.pc = "listening" /\ server = "closing"
  /\ boot' = Exit(boot, IF ok THEN "0" ELSE "1")
  /\ UNCHANGED <<Running, server>>

\* what startServer does by itself, given time
BootStep ==
  \/ \E ok \in BOOLEAN : ValidateEnv(ok)
  \/ \E ok \in BOOLEAN : SetupDirectories(ok)
  \/ \E o \in {"ok"} \cup ConnectErrors : Connect(o)
  \/ BackoffElapsed
  \/ Listen

NextBoot ==
  \/ BootStep
  \/ Signal
  \/ \E ok \in BOOLEAN : GracefulShutdown(ok)

\* every await of startServer settles: mongoose.connect has its timeouts, the
\* backoff is a timer
SpecBoot == InitBoot /\ [][NextBoot]_vars /\ WF_vars(BootStep)

\* ------------------------------------------------------------- properties
\* the step in which slot r sends its response
Answers(r) == req[r].pc # "done" /\ req'[r].pc = "done"

Answered(r, op, status) ==
  req[r].pc = "done" /\ req[r].op = op /\ req[r].status = status

\* C1: every existing channel has exactly one admin, a user the directory
\* resolves, in every state reached by interleaved create, promote, rename, add,
\* remove and set-photo requests
C1_OneAdmin ==
  \A c \in ChannelIds : channels[c].exists => channels[c].admin \in Users

\* a promotion has committed while another request on the channel is in flight
C1_Witness ==
  \E r \in Reqs, q \in Reqs :
    /\ Answered(r, "updateMemberRole", 200)
    /\ req[q].pc = "save" /\ req[q].chan = req[r].chan
    /\ channels[req[r].chan].admin = "C"
    /\ channels[req[r].chan].photo # NoPath

\* C2: a promotion whose channel's admin is no longer the one it read (another
\* promotion was committed in between) fails with Conflict and writes nothing
C2_ConflictOnRace ==
  [][\A r \in Reqs :
       ( /\ req[r].op = "updateMemberRole" /\ req[r].pc = "save"
         /\ Answers(r) /\ req'[r].status # 500
         /\ channels[req[r].chan].admin # req[r].actor )
       => (req'[r].status = 409 /\ channels' = channels)]_vars

\* C3: a promotion passes its checks exactly when the channel exists, the actor
\* is its admin and the target is in members, and otherwise answers NotFound,
\* Forbidden or NotAMember and leaves the channel alone; its save makes the
\* target the admin and changes nothing else of the channel
C3_PromoteContract ==
  [][\A r \in Reqs :
       /\ \A a \in Actors, c \in ChanArgs, u \in Actors \cup {NoUser} :
            UpdateMemberRoleFind(r, a, c, u, FALSE) =>
              LET doc == FindChannel(c)
              IN /\ channels' = channels
                 /\ req'[r].pc = "save" <=>
                      (doc.exists /\ doc.admin = a /\ u \in Range(doc.members))
                 /\ ~doc.exists =>
                      req'[r].status = 404 /\ req'[r].msg = "Channel not found"
                 /\ doc.exists /\ doc.admin # a => req'[r].status = 403
                 /\ doc.exists /\ doc.admin = a /\ u \notin Range(doc.members) =>
                      req'[r].status = 404 /\ req'[r].msg = "User is not a member"
       /\ UpdateMemberRoleSave(r, FALSE) =>
            LET c == req[r].chan
            IN /\ req'[r].status = 200
               /\ channels[c].admin = req[r].actor
               /\ req[r].user \in Range(channels[c].members)
               /\ channels' = [channels EXCEPT ![c].admin = req[r].user]]_vars

\* a promotion has succeeded and the former admin is still a member
C3_Witness ==
  \E r \in Reqs :
    /\ Answered(r, "updateMemberRole", 200)
    /\ channels[req[r].chan].admin = "B"
    /\ channels[req[r].chan].members = <<"A", "B">>

\* C4: a rename is committed only for the channel's current admin: it answers
\* NotFound for an unknown channel and Forbidden for any other actor, leaving the
\* name alone; for the admin its save sets the name and nothing else
C4_RenameByAdminOnly ==
  [][\A r \in Reqs :
       /\ \A a \in Actors, c \in ChanArgs, n \in Names :
            ChangeGroupNameFind(r, a, c, n, FALSE) =>
              LET doc == FindChannel(c)
              IN /\ channels' = channels
                 /\ req'[r].pc = "save" <=> (doc.exists /\ doc.admin = a)
                 /\ ~doc.exists => req'[r].status = 404
                 /\ doc.exists /\ doc.admin # a => req'[r].status = 403
       /\ ChangeGroupNameSave(r, FALSE) =>
            LET c == req[r].chan
            IN /\ req'[r].status = 200
               /\ channels[c].admin = req[r].actor
               /\ channels' = [channels EXCEPT ![c].name = req[r].name]]_vars

\* after a promotion to B, a rename was refused to an actor of a channel whose
\* admin is B and whose members are A and B
C4_Witness ==
  \E r \in Reqs :
    /\ Answered(r, "changeGroupName", 403)
    /\ channels[req[r].chan].admin = "B"
    /\ channels[req[r].chan].members = <<"A", "B">>
    /\ channels[req[r].chan].name = "Dev"

\* C5: the list a channel read returns holds no message whose deleted flag is
\* true
C5_ChannelReadHidesDeleted ==
  \A r \in Reqs :
    Answered(r, "getChannelMessages", 200) =>
      \A i \in 1..Len(req[r].body) : ~req[r].body[i].deleted

\* the two users of the pair, in either direction
Between(doc, a, b) ==
  \/ doc.sender = a /\ doc.recipient = b
  \/ doc.sender = b /\ doc.recipient = a

\* C6: a conversation read answers InvalidRequest when an identifier is missing
\* and otherwise returns exactly the stored messages between the two users that
\* are not deleted, each once, as stored, by ascending timestamp
C6_ConversationRead ==
  [][\A r \in Reqs, a \in Actors \cup {NoUser}, b \in Actors \cup {NoUser} :
       GetMessages(r, a, b, FALSE) =>
         LET out == req'[r].body
         IN IF a = NoUser \/ b = NoUser
            THEN req'[r].status = 400 /\ out = <<>>
            ELSE /\ req'[r].status = 200
                 /\ \A i \in 1..Len(out) :
                      /\ out[i].id \in MsgIds
                      /\ out[i] = messages[out[i].id]
                      /\ out[i].exists /\ ~out[i].deleted
                      /\ Between(out[i], a, b)
                 /\ \A m \in MsgIds :
                      (messages[m].exists /\ ~messages[m].deleted
                         /\ Between(messages[m], a, b))
                      => \E i \in 1..Len(out) : out[i].id = m
                 /\ \A i, j \in 1..Len(out) :
                      i < j => /\ out[i].id # out[j].id
                               /\ out[i].timestamp <= out[j].timestamp]_vars

\* a read returned two messages whose order by time is not their stored order,
\* and another returned one message of a pair whose other message is deleted
C6_Witness ==
  \E r \in Reqs :
    /\ Answered(r, "getMessages", 200)
    /\ \/ /\ Len(req[r].body) = 2
          /\ req[r].body[1].id = "m2"
          /\ req[r].body[1].timestamp < req[r].body[2].timestamp
       \/ /\ Len(req[r].body) = 1
          /\ \E m \in MsgIds :
               /\ messages[m].deleted
               /\ Between(messages[m], req[r].body[1].sender,
                          req[r].body[1].recipient)

\* C7: a soft delete passes its checks exactly for the sender of a stored
\* message, answers NotFound for an unknown id and Forbidden for another actor,
\* leaving every message alone; its save sets deleted and nothing else, and on a
\* message already deleted it succeeds and changes nothing
C7_SoftDeleteContract ==
  [][\A r \in Reqs :
       /\ \A a \in Actors, m \in MsgIds :
            DeleteMessageFind(r, a, m, FALSE) =>
              /\ messages' = messages
              /\ req'[r].pc = "save" <=>
                   (messages[m].exists /\ messages[m].sender = a)
              /\ ~messages[m].exists => req'[r].status = 404
              /\ messages[m].exists /\ messages[m].sender # a =>
                   req'[r].status = 403
       /\ DeleteMessageSave(r, FALSE) =>
            LET m == req[r].mid
            IN /\ req'[r].status = 200
               /\ messages[m].sender = req[r].actor
               /\ messages' = [messages EXCEPT ![m].deleted = TRUE]
               /\ messages[m].deleted => messages' = messages]_vars

\* a delete of an already deleted, edited and pinned message has been accepted
C7_Witness ==
  \E r \in Reqs :
    /\ req[r].op = "deleteMessage" /\ req[r].pc = "save"
    /\ messages[req[r].mid].deleted
    /\ messages[req[r].mid].edited
    /\ messages[req[r].mid].pinned

\* C8: an edit passes its checks exactly when the message is stored and the
\* actor is its sender or elevated, and otherwise answers NotFound or Forbidden
\* and leaves every message alone; its save sets the content and edited = true;
\* and no step takes edited from true to false
C8_EditContract ==
  [][/\ \A r \in Reqs :
          /\ \A a \in Actors, e \in BOOLEAN, m \in MsgIds, c \in Contents :
               EditMessageFind(r, a, e, m, c, FALSE) =>
                 /\ messages' = messages
                 /\ req'[r].pc = "save" <=>
                      (messages[m].exists /\ (messages[m].sender = a \/ e))
                 /\ ~messages[m].exists => req'[r].status = 404
                 /\ messages[m].exists /\ messages[m].sender # a /\ ~e =>
                      req'[r].status = 403
          /\ EditMessageSave(r, FALSE) =>
               LET m == req[r].mid
               IN /\ req'[r].status = 200
                  /\ messages' = [messages EXCEPT ![m].content = req[r].content,
                                                  ![m].edited = TRUE]
     /\ \A m \in MsgIds : messages[m].edited => messages'[m].edited]_vars

\* an edit by an elevated actor who is not the sender has been committed
C8_Witness ==
  \E r \in Reqs, m \in MsgIds :
    /\ Answered(r, "editMessage", 200) /\ req[r].mid = m
    /\ messages[m].edited /\ messages[m].content = "hi there"
    /\ messages[m].sender = "A"

\* C9: a pin by an actor who is not elevated answers Forbidden; by an elevated
\* actor it passes when the message is not pinned and its save sets pinned and
\* nothing else; on a pinned message it answers AlreadyPinned and changes
\* nothing; and no step takes pinned from true to false
C9_PinOnce ==
  [][/\ \A r \in Reqs :
          /\ \A a \in Actors, e \in BOOLEAN, m \in MsgIds :
               PinMessageFind(r, a, e, m, FALSE) =>
                 /\ messages' = messages
                 /\ req'[r].pc = "save" <=>
                      (messages[m].exists /\ e /\ ~messages[m].pinned)
                 /\ messages[m].exists /\ ~e => req'[r].status = 403
                 /\ messages[m].exists /\ e /\ messages[m].pinned =>
                      /\ req'[r].status = 400
                      /\ req'[r].msg = "Message is already pinned."
          /\ PinMessageSave(r, FALSE) =>
               LET m == req[r].mid
               IN /\ req'[r].status = 200
                  /\ ~messages[m].pinned
                  /\ messages' = [messages EXCEPT ![m].pinned = TRUE]
     /\ \A m \in MsgIds : messages[m].pinned => messages'[m].pinned]_vars

\* a second pin of a message has been answered AlreadyPinned
C9_Witness ==
  \E r \in Reqs :
    /\ Answered(r, "pinMessage", 400)
    /\ req[r].msg = "Message is already pinned."
    /\ messages[req[r].mid].pinned

\* C10: when a set-photo request that staged a file answers with an error, the
\* staged file is no longer in storage
C10_StagedFileRemoved ==
  \A r \in Reqs :
    ( /\ req[r].pc = "done" /\ req[r].op = "setGroupPhoto"
      /\ req[r].file # NoPath /\ req[r].status >= 400 )
    => req[r].file \notin files

C12_PhotoRoundTrip ==
  [][\A r \in Reqs :
       SetGroupPhotoSave(r, FALSE) =>
         LET c   == req[r].chan
             old == channels[c].photo
         IN /\ req'[r].status = 200
            /\ PathJoin(AppRoot, channels'[c].photo) = req[r].file
            /\ old # NoPath => PathJoin(AppRoot, old) \notin files']_vars

\* C13: a create request whose creator does not resolve answers InvalidActor,
\* one with a member id that does not resolve answers InvalidMembers, and neither
\* stores a channel; a create that succeeds adds exactly one channel, whose admin
\* is the creator and whose members are the ids given, and touches no other
C13_CreateAllOrNothing ==
  [][\A r \in Reqs, a \in Actors, n \in Names, l \in MemberLists :
       CreateChannel(r, a, n, l, FALSE) =>
         /\ a \notin Users =>
              /\ req'[r].status = 400 /\ req'[r].msg = "Admin user not found."
              /\ channels' = channels
         /\ (a \in Users /\ \E i \in 1..Len(l) : l[i] \notin Users) =>
              /\ req'[r].status = 400
              /\ req'[r].msg = "Some members are not valid users."
              /\ channels' = channels
         /\ req'[r].status # 201 => channels' = channels
         /\ req'[r].status = 201 =>
              \E c \in ChannelIds :
                /\ ~channels[c].exists /\ channels'[c].exists
                /\ channels'[c].admin = a /\ channels'[c].members = l
                /\ channels'[c].name = n
                /\ \A d \in ChannelIds \ {c} : channels'[d] = channels[d]]_vars

\* a create naming an unknown member has been refused and no channel is stored
C13_Witness ==
  \E r \in Reqs :
    /\ Answered(r, "createChannel", 400)
    /\ req[r].msg = "Some members are not valid users."
    /\ \A c \in ChannelIds : ~channels[c].exists

\* C14: no channel's members holds a user more than once, in every state, also
\* when two add requests for the same user on the same channel interleave
C14_NoDuplicateMembers ==
  \A c \in ChannelIds :
    channels[c].exists =>
      \A i, j \in 1..Len(channels[c].members) :
        i # j => channels[c].members[i] # channels[c].members[j]

\* C15: a membership write that answers success acts on the members stored at
\* that moment: an add leaves its user in and drops nobody, a remove takes its
\* user out and nobody else, whatever was committed since the handler read the
\* channel; so an add of X and a remove of Y that both succeed leave X in and
\* Y out, and two adds that both succeed leave both users in
C15_NoLostMembershipUpdate ==
  [][\A r \in Reqs :
       /\ (AddMemberSave(r, FALSE) /\ req'[r].status = 200) =>
            LET c == req[r].chan
            IN /\ req[r].user \in Range(channels'[c].members)
               /\ Range(channels[c].members) \subseteq Range(channels'[c].members)
       /\ (RemoveMemberSave(r, FALSE) /\ req'[r].status = 200) =>
            LET c == req[r].chan
            IN Range(channels'[c].members)
                 = Range(channels[c].members) \ {req[r].user}]_vars

\* an add of C is about to save after a remove of B was committed behind its
\* back, with nobody else left in the channel
C15_Witness ==
  \E r \in Reqs :
    /\ req[r].op = "addMember" /\ req[r].pc = "save" /\ req[r].stale
    /\ req[r].user = "C"
    /\ channels[req[r].chan].members = <<>>

\* C16: an add or a remove on an existing channel never answers Forbidden and
\* its outcome is the same for every actor: UserNotFound for an email that does
\* not resolve, AlreadyMember or NotAMember by the channel's members alone, and
\* otherwise the save appends the user, or takes the user out, and changes
\* nothing else of the channel
C16_MembershipNotGated ==
  [][\A r \in Reqs, c \in ChannelIds, u \in Actors :
       LET m == Range(channels[c].members)
       IN /\ \A a \in Actors :
               (AddMemberFind(r, a, c, u, FALSE) /\ channels[c].exists) =>
                 /\ \A b \in Actors : AddMemberFind(r, b, c, u, FALSE)
                 /\ req'[r].status # 403 /\ channels' = channels
                 /\ u \notin Users =>
                      req'[r].status = 404 /\ req'[r].msg = "User not found"
                 /\ u \in Users /\ u \in m => req'[r].status = 400
                 /\ u \in Users /\ u \notin m => req'[r].pc = "save"
          /\ \A a \in Actors :
               (RemoveMemberFind(r, a, c, u, FALSE) /\ channels[c].exists) =>
                 /\ \A b \in Actors : RemoveMemberFind(r, b, c, u, FALSE)
                 /\ req'[r].status # 403 /\ channels' = channels
                 /\ u \notin Users =>
                      req'[r].status = 404 /\ req'[r].msg = "User not found"
                 /\ u \in Users /\ u \notin m => req'[r].status = 400
                 /\ u \in Users /\ u \in m => req'[r].pc = "save"
          /\ (AddMemberSave(r, FALSE) /\ req[r].chan = c) =>
               /\ req'[r].status = 200
               /\ channels' = [channels EXCEPT
                                 ![c].members = Append(@, req[r].user)]
          /\ (RemoveMemberSave(r, FALSE) /\ req[r].chan = c) =>
               /\ req'[r].status = 200
               /\ Range(channels'[c].members) = m \ {req[r].user}
               /\ channels' = [channels EXCEPT
                                 ![c].members = channels'[c].members]]_vars

\* a remove has succeeded on a channel whose admin is still its creator and has
\* left it without members
C16_Witness ==
  \E r \in Reqs :
    /\ Answered(r, "removeMember", 200)
    /\ channels[req[r].chan].admin = "A"
    /\ channels[req[r].chan].members = <<>>

\* C17: an attachment request without an upload answers NoFile and creates
\* nothing; with an upload it answers the permanent path, where the artifact then
\* is, or an error, and in both cases the staged artifact is no longer in storage
C17_AttachmentStaging ==
  [][\A r \in Reqs, up \in {"none", "file"}, x \in Suffixes, d \in Stamps,
        o \in OriginalNames, f \in {"no", "mkdir", "rename"} :
       UploadFile(r, up, x, d, o, f) =>
         IF up = "none"
         THEN req'[r].status = 404 /\ files' = files
         ELSE /\ FilesDir \o <<x>> \notin files'
              /\ \/ /\ req'[r].status = 200
                    /\ req'[r].body = FilesDir \o <<d, o[Len(o)]>>
                    /\ req'[r].body \in files'
                 \/ /\ req'[r].status >= 400
                    /\ files' = files]_vars

\* C18: a message whose deleted flag is true keeps it and stays stored in every
\* step, also the save of an edit or a pin that read the message before the
\* delete was committed; and an edit or a pin of a deleted message passes its
\* checks under the usual authorization
C18_DeletedStays ==
  [][/\ \A m \in MsgIds :
          (messages[m].exists /\ messages[m].deleted)
            => (messages'[m].exists /\ messages'[m].deleted)
     /\ \A r \in Reqs, a \in Actors, e \in BOOLEAN, m \in MsgIds :
          /\ \A c \in Contents :
               ( /\ EditMessageFind(r, a, e, m, c, FALSE)
                 /\ messages[m].deleted /\ (messages[m].sender = a \/ e) )
               => req'[r].pc = "save"
          /\ ( /\ PinMessageFind(r, a, e, m, FALSE)
               /\ messages[m].deleted /\ e /\ ~messages[m].pinned )
             => req'[r].pc = "save"]_vars

\* an edit that read the message before its delete is about to save after the
\* delete was committed
C18_Witness ==
  \E r \in Reqs :
    /\ req[r].op = "editMessage" /\ req[r].pc = "save"
    /\ ~req[r].mdoc.deleted
    /\ messages[req[r].mid].deleted

\* C19: a pin request answers success only when it is the one that sets the
\* flag: on a message already pinned by the time it saves, it answers
\* AlreadyPinned instead; so at most one pin of a message ever succeeds
C19_OnePinSucceeds ==
  [][\A r \in Reqs :
       (req[r].op = "pinMessage" /\ Answers(r) /\ req'[r].status = 200)
         => ~messages[req[r].mid].pinned]_vars

\* C20: when no request is in flight, every artifact in the channel photo
\* directory is the photo of exactly one channel
C20_NoOrphanPhoto ==
  (\A r \in Reqs : req[r].pc = "idle") =>
    \A p \in files :
      IsPrefix(UploadDir, p) =>
        Cardinality({c \in ChannelIds :
                       /\ channels[c].exists /\ channels[c].photo # NoPath
                       /\ PathJoin(AppRoot, channels[c].photo) = p}) = 1

\* C21: when a promotion commits admin := target, the target is in the members
\* stored at that moment, also when a remove of the target was committed after
\* the promotion's membership check
C21_PromotedIsMember ==
  [][\A r \in Reqs :
       ( /\ req[r].op = "updateMemberRole" /\ req[r].pc = "save"
         /\ Answers(r) /\ req'[r].status = 200 )
       => req[r].user \in Range(channels[req[r].chan].members)]_vars

\* C22: a rename or a set-photo write that commits was requested by the user
\* who is the channel's admin at the moment of the commit, also when a promotion
\* away from that user was committed after the request's admin check
C22_WriterIsAdmin ==
  [][\A r \in Reqs :
       ( /\ req[r].op \in {"changeGroupName", "setGroupPhoto"}
         /\ req[r].pc = "save"
         /\ Answers(r) /\ req'[r].status = 200
         /\ channels' # channels )
       => channels[req[r].chan].admin = req[r].actor]_vars

\* what connectDB has to have waited after its failed attempt number k (the
\* attempt with i = k - 1)
C23_Delays == <<1000, 2000, 4000, 8000>>

\* connectDB stays within its attempts, has waited after each failed attempt
\* but the last, stops at the first attempt that connects, and after the last
\* failure raises that failure, upon which the process exits and never listens
C23_Bounded ==
  /\ boot.attempts <= boot.retries
  /\ Len(boot.waited) < boot.retries
  /\ Len(boot.waited) \in {Len(boot.errors) - 1, Len(boot.errors)}
  /\ boot.pc = "connect" => Len(boot.waited) = boot.attempts
  /\ Len(boot.errors) = boot.retries => Len(boot.waited) = boot.retries - 1
  /\ \A k \in 1..Len(boot.waited) :
       boot.waited[k] = IF k <= Len(C23_Delays) THEN C23_Delays[k] ELSE 10000
  /\ server # "starting" =>
       /\ boot.attempts = Len(boot.errors) + 1
       /\ boot.raised = ""
  /\ Len(boot.errors) = boot.retries =>
       /\ boot.pc = "exited" /\ boot.exit = "1" /\ server = "starting"
       /\ boot.raised = boot.errors[boot.retries]
  /\ boot.raised # "" => Len(boot.errors) = boot.retries

\* C23: connectDB always terminates, in success at the first attempt that
\* connects or, after `retries` failed attempts with the capped exponential
\* waits between them, in the last error and a process exit without listening
C23_ConnectTerminates ==
  /\ []C23_Bounded
  /\ (boot.pc \in {"connect", "backoff"}) ~> (boot.pc \in {"listen", "exited"})

\* connectDB() with its default has failed five times, waited four times, and
\* the process has exited without listening
C23_Witness ==
  /\ boot.pc = "exited" /\ boot.exit = "1" /\ server = "starting"
  /\ boot.retries = 5 /\ boot.attempts = 5
  /\ boot.waited = <<1000, 2000, 4000, 8000>>
  /\ boot.raised = "ETIMEOUT" /\ boot.errors[1] = "ECONNREFUSED"

====
